---- MODULE Spec2Model ----
(***************************************************************************)
(* Model of reservation_system/res_system.py: the DatabaseHandler over the *)
(* three SQLite tables Hotel, Customer and Reservation.                    *)
(*                                                                         *)
(* A Python value that may be None is modelled as a sequence of length at  *)
(* most one: None is << >> and the value v is << v >>.  A table is the set *)
(* of its rows; a row is a record whose fields are the table's columns.    *)
(* Every DatabaseHandler method is one action that runs the whole method   *)
(* (statement and commit) and records the call, its return value and the   *)
(* exception it ended in (if any) in the variable last; the caller then    *)
(* takes the outcome (Return) before it makes the next call.               *)
(***************************************************************************)
EXTENDS Integers, FiniteSets, Sequences

\* Bound of the model: the number of successful inserts in one run.
MaxCreates == 3

\* Argument values the callers use; the empty string is one of them.
HotelNames == {"Hotel A", ""}
Locations == {"Location A", ""}
CustomerNames == {"John Doe", ""}
Emails == {"john@example.com", ""}
Dates == {"2024-02-20", "2024-03-10"}
Nights == {5, 7}

None == << >>
Some(v) == << v >>
IsNone(x) == x = None
Val(x) == x[1]
Vals(S) == {Some(v) : v \in S}
Opt(S) == Vals(S) \cup {None}

VARIABLES
    hotelRows,        \* rows of table "Hotel": [ID, NAME, LOCATION]
    customerRows,     \* rows of table "Customer": [ID, NAME, EMAIL]
    reservationRows,  \* rows of table "Reservation": [ID, HOTEL_ID, CUSTOMER_ID, DATE, NIGHTS]
    sqlite_sequence,  \* AUTOINCREMENT bookkeeping: table name -> largest ID ever assigned
    last              \* the call that has just ended: [op, args, ret, exc]

vars == <<hotelRows, customerRows, reservationRows, sqlite_sequence, last>>
tables == <<hotelRows, customerRows, reservationRows>>

\* ---------------------------------------------------------------- entities
Hotel(hotel_id, name, location) ==
    [hotel_id |-> hotel_id, name |-> name, location |-> location]

Customer(customer_id, name, email) ==
    [customer_id |-> customer_id, name |-> name, email |-> email]

Reservation(reservation_id, hotel_id, customer_id, check_in_date, nights) ==
    [reservation_id |-> reservation_id, hotel_id |-> hotel_id,
     customer_id |-> customer_id, check_in_date |-> check_in_date,
     nights |-> nights]

\* ------------------------------------------------------------ call records
Idle == [op |-> "idle", args |-> << >>, ret |-> None, exc |-> "none"]

Returned(op, args, ret) == [op |-> op, args |-> args, ret |-> ret, exc |-> "none"]

Raised(op, args, exc) == [op |-> op, args |-> args, ret |-> None, exc |-> exc]

\* ------------------------------------------------------------------ schema
\* PRIMARY KEY("ID" AUTOINCREMENT): the new ID is one more than the largest
\* ID the table has ever held, so the ID of a deleted row is not used again.
\* (variant: the new ID is the number of rows plus one)
NextId_RowCount(table) ==
    Cardinality(CASE table = "Hotel" -> hotelRows
                  [] table = "Customer" -> customerRows
                  [] OTHER -> reservationRows) + 1

\* (variant: PRIMARY KEY("ID") without AUTOINCREMENT: the new ID is one more
\* than the largest ID the table holds now)
NextId_MaxRowid(table) ==
    LET ids == {r.ID : r \in (CASE table = "Hotel" -> hotelRows
                                [] table = "Customer" -> customerRows
                                [] OTHER -> reservationRows)}
    IN  IF ids = {} THEN 1
        ELSE (CHOOSE m \in ids : \A i \in ids : i <= m) + 1

NextId(table) == sqlite_sequence[table] + 1

CreatesDone ==
    sqlite_sequence["Hotel"] + sqlite_sequence["Customer"] + sqlite_sequence["Reservation"]

\* ids a caller passes: every id assigned so far and one never assigned
IdArgs(table) == Vals(1 .. NextId(table))

\* (variant: "LOCATION" TEXT NOT NULL, without UNIQUE)
HotelConstraintFailed_LocationNotUnique(others, name, location) ==
    \/ IsNone(name)
    \/ IsNone(location)
    \/ \E r \in others : r.NAME = Val(name)

\* "NAME" TEXT NOT NULL UNIQUE, "LOCATION" TEXT NOT NULL UNIQUE.
\* others: the rows the statement does not write.
HotelConstraintFailed(others, name, location) ==
    \/ IsNone(name)
    \/ IsNone(location)
    \/ \E r \in others : r.NAME = Val(name)
    \/ \E r \in others : r.LOCATION = Val(location)

\* fetchone() of SELECT * FROM Hotel WHERE ID = ?  (ID = NULL matches no row)
HotelRowsById(hotel_id) ==
    IF IsNone(hotel_id) THEN {} ELSE {r \in hotelRows : r.ID = Val(hotel_id)}

HotelRowsByName(hotel_name) ==
    IF IsNone(hotel_name) THEN {} ELSE {r \in hotelRows : r.NAME = Val(hotel_name)}

\* (variant: "EMAIL" TEXT NOT NULL, without UNIQUE)
CustomerConstraintFailed_EmailNotUnique(others, name, email) ==
    \/ IsNone(name)
    \/ IsNone(email)

\* "NAME" TEXT NOT NULL, "EMAIL" TEXT NOT NULL UNIQUE
CustomerConstraintFailed(others, name, email) ==
    \/ IsNone(name)
    \/ IsNone(email)
    \/ \E r \in others : r.EMAIL = Val(email)

CustomerRowsById(customer_id) ==
    IF IsNone(customer_id) THEN {} ELSE {r \in customerRows : r.ID = Val(customer_id)}

\* (variant: the statement is SELECT * FROM Customer WHERE NAME = ?)
CustomerRowsByEmail_ByName(customer_email) ==
    IF IsNone(customer_email) THEN {}
    ELSE {r \in customerRows : r.NAME = Val(customer_email)}

CustomerRowsByEmail(customer_email) ==
    IF IsNone(customer_email) THEN {}
    ELSE {r \in customerRows : r.EMAIL = Val(customer_email)}

\* (variant: foreign keys are not enforced)
ForeignKeyFailed_NotEnforced(hotel_id, customer_id) == FALSE

\* PRAGMA foreign_keys = ON with FOREIGN KEY("HOTEL_ID") REFERENCES "Hotel"("ID")
\* and FOREIGN KEY("CUSTOMER_ID") REFERENCES "Customer"("ID"): the row written
\* must name a parent row in each table.
ForeignKeyFailed(hotel_id, customer_id) ==
    \/ HotelRowsById(hotel_id) = {}
    \/ CustomerRowsById(customer_id) = {}

\* HOTEL_ID, CUSTOMER_ID, DATE, NIGHTS are NOT NULL and the two keys are foreign keys
ReservationConstraintFailed(hotel_id, customer_id, date, nights) ==
    \/ IsNone(hotel_id)
    \/ IsNone(customer_id)
    \/ IsNone(date)
    \/ IsNone(nights)
    \/ ForeignKeyFailed(hotel_id, customer_id)

\* (variant: no ON DELETE RESTRICT on HOTEL_ID)
HotelDeleteRestricted_NotRestricted(hotel_id) == FALSE

\* ON DELETE RESTRICT: a parent row some Reservation row names cannot be deleted
HotelDeleteRestricted(hotel_id) ==
    \E r \in reservationRows : r.HOTEL_ID = Val(hotel_id)

\* (variant: no ON DELETE RESTRICT on CUSTOMER_ID)
CustomerDeleteRestricted_NotRestricted(customer_id) == FALSE

CustomerDeleteRestricted(customer_id) ==
    \E r \in reservationRows : r.CUSTOMER_ID = Val(customer_id)

ReservationRowsById(reservation_id) ==
    IF IsNone(reservation_id) THEN {}
    ELSE {r \in reservationRows : r.ID = Val(reservation_id)}

ReservationRowsByDetails(hotel_id, customer_id, date) ==
    IF IsNone(date) THEN {}
    ELSE {r \in reservationRows :
            r.HOTEL_ID = hotel_id /\ r.CUSTOMER_ID = customer_id /\ r.DATE = Val(date)}

\* The statement text of get_reservation_by_details: two adjacent string
\* literals, given here as their words.  Python joins adjacent literals with
\* nothing in between, so the last word of the first literal and the first
\* word of the second become one word.
DetailsLiteral1 == <<"SELECT", "*", "FROM", "Reservation", "WHERE">>
DetailsLiteral2 ==
    <<"HOTEL_ID", "=", "?", "AND", "CUSTOMER_ID", "=", "?", "AND", "DATE", "=", "?">>

JoinLiterals(a, b) ==
    SubSeq(a, 1, Len(a) - 1) \o << a[Len(a)] \o b[1] >> \o Tail(b)

DetailsStatement == JoinLiterals(DetailsLiteral1, DetailsLiteral2)

\* SQLite accepts SELECT * FROM <table> WHERE <column> = ? AND ... ; with any
\* other word in the place of WHERE it reports a syntax error
\* (sqlite3.OperationalError).
DetailsStatementParses ==
    /\ Len(DetailsStatement) = 16
    /\ SubSeq(DetailsStatement, 1, 5) = <<"SELECT", "*", "FROM", "Reservation", "WHERE">>
    /\ SubSeq(DetailsStatement, 6, 16) = DetailsLiteral2

\* ----------------------------------------------------------------- lookups
\* fetchone(): the first row of the result (SQLite scans a table in the order
\* of its integer primary key), None when there is none.
fetchone(rows) ==
    IF rows = {} THEN None
    ELSE Some(CHOOSE r \in rows : \A q \in rows : r.ID <= q.ID)

get_hotel_by_id(hotel_id) ==
    LET result == fetchone(HotelRowsById(hotel_id)) IN
    IF IsNone(result) THEN None
    ELSE Some(Hotel(Val(result).ID, Val(result).NAME, Val(result).LOCATION))

get_customer_by_id(customer_id) ==
    LET result == fetchone(CustomerRowsById(customer_id)) IN
    IF IsNone(result) THEN None
    ELSE Some(Customer(Val(result).ID, Val(result).NAME, Val(result).EMAIL))

ReservationOfRow(result) ==
    IF IsNone(result) THEN None
    ELSE Some(Reservation(Val(result).ID, Val(result).HOTEL_ID, Val(result).CUSTOMER_ID,
                          Val(result).DATE, Val(result).NIGHTS))

get_reservation_by_id(reservation_id) ==
    ReservationOfRow(fetchone(ReservationRowsById(reservation_id)))

get_hotel_by_name(hotel_name) ==
    LET result == fetchone(HotelRowsByName(hotel_name)) IN
    IF IsNone(result) THEN None
    ELSE Some(Hotel(Val(result).ID, Val(result).NAME, Val(result).LOCATION))

get_customer_by_email(customer_email) ==
    LET result == fetchone(CustomerRowsByEmail(customer_email)) IN
    IF IsNone(result) THEN None
    ELSE Some(Customer(Val(result).ID, Val(result).NAME, Val(result).EMAIL))

\* The outcome of get_reservation_by_details as a call record: reading
\* hotel.hotel_id or customer.customer_id of None is an AttributeError, and
\* the statement is executed only after both have been read.
ReservationByDetails(hotel_name, customer_email, date) ==
    LET args == [hotel_name |-> hotel_name, customer_email |-> customer_email,
                 date |-> date]
        hotel == get_hotel_by_name(hotel_name)
        customer == get_customer_by_email(customer_email)
    IN  IF IsNone(hotel) \/ IsNone(customer)
        THEN Raised("get_reservation_by_details", args, "AttributeError")
        ELSE IF ~DetailsStatementParses
        THEN Raised("get_reservation_by_details", args, "OperationalError")
        ELSE Returned("get_reservation_by_details", args,
                 ReservationOfRow(fetchone(ReservationRowsByDetails(
                     Val(hotel).hotel_id, Val(customer).customer_id, date))))

\* ----------------------------------------------------------------- creates
create_hotel(name, location) ==
    LET args == [name |-> name, location |-> location] IN
    /\ last = Idle
    /\ IF HotelConstraintFailed(hotelRows, name, location)
       THEN \* sqlite3.IntegrityError is caught: "No hotel was created"
            /\ last' = Returned("create_hotel", args, None)
            /\ UNCHANGED <<tables, sqlite_sequence>>
       ELSE /\ CreatesDone < MaxCreates
            /\ hotelRows' = hotelRows \cup
                   {[ID |-> NextId("Hotel"), NAME |-> Val(name), LOCATION |-> Val(location)]}
            /\ sqlite_sequence' = [sqlite_sequence EXCEPT !["Hotel"] = NextId("Hotel")]
            /\ last' = Returned("create_hotel", args,
                         Some(Hotel(NextId("Hotel"), Val(name), Val(location))))
            /\ UNCHANGED <<customerRows, reservationRows>>

create_customer(name, email) ==
    LET args == [name |-> name, email |-> email] IN
    /\ last = Idle
    /\ IF CustomerConstraintFailed(customerRows, name, email)
       THEN \* sqlite3.IntegrityError is caught: "No customer was created"
            /\ last' = Returned("create_customer", args, None)
            /\ UNCHANGED <<tables, sqlite_sequence>>
       ELSE /\ CreatesDone < MaxCreates
            /\ customerRows' = customerRows \cup
                   {[ID |-> NextId("Customer"), NAME |-> Val(name), EMAIL |-> Val(email)]}
            /\ sqlite_sequence' = [sqlite_sequence EXCEPT !["Customer"] = NextId("Customer")]
            /\ last' = Returned("create_customer", args,
                         Some(Customer(NextId("Customer"), Val(name), Val(email))))
            /\ UNCHANGED <<hotelRows, reservationRows>>

create_reservation(hotel_id, customer_id, date, nights) ==
    LET args == [hotel_id |-> hotel_id, customer_id |-> customer_id,
                 date |-> date, nights |-> nights] IN
    /\ last = Idle
    /\ IF ReservationConstraintFailed(hotel_id, customer_id, date, nights)
       THEN \* sqlite3.IntegrityError is caught: "No reservation was created"
            /\ last' = Returned("create_reservation", args, None)
            /\ UNCHANGED <<tables, sqlite_sequence>>
       ELSE /\ CreatesDone < MaxCreates
            /\ reservationRows' = reservationRows \cup
                   {[ID |-> NextId("Reservation"), HOTEL_ID |-> Val(hotel_id),
                     CUSTOMER_ID |-> Val(customer_id), DATE |-> Val(date),
                     NIGHTS |-> Val(nights)]}
            /\ sqlite_sequence' =
                   [sqlite_sequence EXCEPT !["Reservation"] = NextId("Reservation")]
            /\ last' = Returned("create_reservation", args,
                         Some(Reservation(NextId("Reservation"), Val(hotel_id),
                                          Val(customer_id), Val(date), Val(nights))))
            /\ UNCHANGED <<hotelRows, customerRows>>

\* ----------------------------------------------------------------- updates
\* UPDATE ... WHERE ID = ?: with no row of that ID the statement writes
\* nothing and checks nothing; otherwise a constraint the new row breaks
\* aborts the statement with sqlite3.IntegrityError, which nothing catches.
update_hotel(hotel_id, name, location) ==
    LET args == [hotel_id |-> hotel_id, name |-> name, location |-> location]
        matched == HotelRowsById(hotel_id)
    IN
    /\ last = Idle
    /\ UNCHANGED <<customerRows, reservationRows, sqlite_sequence>>
    /\ IF matched = {}
       THEN /\ last' = Returned("update_hotel", args, None)
            /\ UNCHANGED hotelRows
       ELSE IF HotelConstraintFailed(hotelRows \ matched, name, location)
       THEN /\ last' = Raised("update_hotel", args, "IntegrityError")
            /\ UNCHANGED hotelRows
       ELSE /\ hotelRows' = (hotelRows \ matched) \cup
                   {[ID |-> Val(hotel_id), NAME |-> Val(name), LOCATION |-> Val(location)]}
            /\ last' = Returned("update_hotel", args, None)

\* (variant: the two values are bound to the statement in the other order)
update_customer_Swapped(customer_id, name, email) ==
    LET args == [customer_id |-> customer_id, name |-> name, email |-> email]
        matched == CustomerRowsById(customer_id)
    IN
    /\ last = Idle
    /\ UNCHANGED <<hotelRows, reservationRows, sqlite_sequence>>
    /\ IF matched = {}
       THEN /\ last' = Returned("update_customer", args, None)
            /\ UNCHANGED customerRows
       ELSE IF CustomerConstraintFailed(customerRows \ matched, email, name)
       THEN /\ last' = Raised("update_customer", args, "IntegrityError")
            /\ UNCHANGED customerRows
       ELSE /\ customerRows' = (customerRows \ matched) \cup
                   {[ID |-> Val(customer_id), NAME |-> Val(email), EMAIL |-> Val(name)]}
            /\ last' = Returned("update_customer", args, None)

update_customer(customer_id, name, email) ==
    LET args == [customer_id |-> customer_id, name |-> name, email |-> email]
        matched == CustomerRowsById(customer_id)
    IN
    /\ last = Idle
    /\ UNCHANGED <<hotelRows, reservationRows, sqlite_sequence>>
    /\ IF matched = {}
       THEN /\ last' = Returned("update_customer", args, None)
            /\ UNCHANGED customerRows
       ELSE IF CustomerConstraintFailed(customerRows \ matched, name, email)
       THEN /\ last' = Raised("update_customer", args, "IntegrityError")
            /\ UNCHANGED customerRows
       ELSE /\ customerRows' = (customerRows \ matched) \cup
                   {[ID |-> Val(customer_id), NAME |-> Val(name), EMAIL |-> Val(email)]}
            /\ last' = Returned("update_customer", args, None)

update_reservation(reservation_id, hotel_id, customer_id, date, nights) ==
    LET args == [reservation_id |-> reservation_id, hotel_id |-> hotel_id,
                 customer_id |-> customer_id, date |-> date, nights |-> nights]
        matched == ReservationRowsById(reservation_id)
    IN
    /\ last = Idle
    /\ UNCHANGED <<hotelRows, customerRows, sqlite_sequence>>
    /\ IF matched = {}
       THEN /\ last' = Returned("update_reservation", args, None)
            /\ UNCHANGED reservationRows
       ELSE IF ReservationConstraintFailed(hotel_id, customer_id, date, nights)
       THEN /\ last' = Raised("update_reservation", args, "IntegrityError")
            /\ UNCHANGED reservationRows
       ELSE /\ reservationRows' = (reservationRows \ matched) \cup
                   {[ID |-> Val(reservation_id), HOTEL_ID |-> Val(hotel_id),
                     CUSTOMER_ID |-> Val(customer_id), DATE |-> Val(date),
                     NIGHTS |-> Val(nights)]}
            /\ last' = Returned("update_reservation", args, None)

\* ----------------------------------------------------------------- deletes
delete_hotel(hotel_id) ==
    LET args == [hotel_id |-> hotel_id] IN
    /\ last = Idle
    /\ UNCHANGED <<customerRows, reservationRows, sqlite_sequence>>
    /\ IF IsNone(get_hotel_by_id(hotel_id))
       THEN /\ last' = Raised("delete_hotel", args, "ValueError")
            /\ UNCHANGED hotelRows
       ELSE IF HotelDeleteRestricted(hotel_id)
       THEN /\ last' = Raised("delete_hotel", args, "IntegrityError")
            /\ UNCHANGED hotelRows
       ELSE /\ hotelRows' = hotelRows \ HotelRowsById(hotel_id)
            /\ last' = Returned("delete_hotel", args, None)

\* (variant: the statement is DELETE FROM Customer, without WHERE)
delete_customer_AllRows(customer_id) ==
    LET args == [customer_id |-> customer_id] IN
    /\ last = Idle
    /\ UNCHANGED <<hotelRows, reservationRows, sqlite_sequence>>
    /\ IF IsNone(get_customer_by_id(customer_id))
       THEN /\ last' = Raised("delete_customer", args, "ValueError")
            /\ UNCHANGED customerRows
       ELSE IF reservationRows # {}
       THEN /\ last' = Raised("delete_customer", args, "IntegrityError")
            /\ UNCHANGED customerRows
       ELSE /\ customerRows' = {}
            /\ last' = Returned("delete_customer", args, None)

delete_customer(customer_id) ==
    LET args == [customer_id |-> customer_id] IN
    /\ last = Idle
    /\ UNCHANGED <<hotelRows, reservationRows, sqlite_sequence>>
    /\ IF IsNone(get_customer_by_id(customer_id))
       THEN /\ last' = Raised("delete_customer", args, "ValueError")
            /\ UNCHANGED customerRows
       ELSE IF CustomerDeleteRestricted(customer_id)
       THEN /\ last' = Raised("delete_customer", args, "IntegrityError")
            /\ UNCHANGED customerRows
       ELSE /\ customerRows' = customerRows \ CustomerRowsById(customer_id)
            /\ last' = Returned("delete_customer", args, None)

\* (variant: a missing row is not reported)
delete_reservation_NoExistenceCheck(reservation_id) ==
    LET args == [reservation_id |-> reservation_id] IN
    /\ last = Idle
    /\ UNCHANGED <<hotelRows, customerRows, sqlite_sequence>>
    /\ reservationRows' = reservationRows \ ReservationRowsById(reservation_id)
    /\ last' = Returned("delete_reservation", args, None)

\* (variant: the statement is DELETE FROM Customer WHERE ID = ?)
delete_reservation_WrongTable(reservation_id) ==
    LET args == [reservation_id |-> reservation_id] IN
    /\ last = Idle
    /\ UNCHANGED <<hotelRows, reservationRows, sqlite_sequence>>
    /\ IF IsNone(get_reservation_by_id(reservation_id))
       THEN /\ last' = Raised("delete_reservation", args, "ValueError")
            /\ UNCHANGED customerRows
       ELSE IF CustomerDeleteRestricted(reservation_id)
       THEN /\ last' = Raised("delete_reservation", args, "IntegrityError")
            /\ UNCHANGED customerRows
       ELSE /\ customerRows' = customerRows \ CustomerRowsById(reservation_id)
            /\ last' = Returned("delete_reservation", args, None)

delete_reservation(reservation_id) ==
    LET args == [reservation_id |-> reservation_id] IN
    /\ last = Idle
    /\ UNCHANGED <<hotelRows, customerRows, sqlite_sequence>>
    /\ IF IsNone(get_reservation_by_id(reservation_id))
       THEN /\ last' = Raised("delete_reservation", args, "ValueError")
            /\ UNCHANGED reservationRows
       ELSE /\ reservationRows' = reservationRows \ ReservationRowsById(reservation_id)
            /\ last' = Returned("delete_reservation", args, None)

\* ------------------------------------------------------------ lookup calls
\* A lookup executes a SELECT and writes nothing.
LookupHotelById(hotel_id) ==
    /\ last = Idle
    /\ last' = Returned("get_hotel_by_id", [hotel_id |-> hotel_id],
                        get_hotel_by_id(hotel_id))
    /\ UNCHANGED <<tables, sqlite_sequence>>

LookupCustomerById(customer_id) ==
    /\ last = Idle
    /\ last' = Returned("get_customer_by_id", [customer_id |-> customer_id],
                        get_customer_by_id(customer_id))
    /\ UNCHANGED <<tables, sqlite_sequence>>

LookupReservationById(reservation_id) ==
    /\ last = Idle
    /\ last' = Returned("get_reservation_by_id", [reservation_id |-> reservation_id],
                        get_reservation_by_id(reservation_id))
    /\ UNCHANGED <<tables, sqlite_sequence>>

LookupHotelByName(hotel_name) ==
    /\ last = Idle
    /\ last' = Returned("get_hotel_by_name", [hotel_name |-> hotel_name],
                        get_hotel_by_name(hotel_name))
    /\ UNCHANGED <<tables, sqlite_sequence>>

LookupCustomerByEmail(customer_email) ==
    /\ last = Idle
    /\ last' = Returned("get_customer_by_email", [customer_email |-> customer_email],
                        get_customer_by_email(customer_email))
    /\ UNCHANGED <<tables, sqlite_sequence>>

get_reservation_by_details(hotel_name, customer_email, date) ==
    /\ last = Idle
    /\ last' = ReservationByDetails(hotel_name, customer_email, date)
    /\ UNCHANGED <<tables, sqlite_sequence>>

\* ------------------------------------------------------------ construction
TableNames == {"Hotel", "Customer", "Reservation"}

\* (variant: the table is dropped and created again)
CreateTableIfNotExists_Recreate(table, rows) == {}

\* CREATE TABLE IF NOT EXISTS: a table the storage holds (sqlite_sequence
\* knows it) is left as it is, rows included; a table it does not hold is
\* created empty.
CreateTableIfNotExists(table, rows) ==
    IF table \in DOMAIN sqlite_sequence THEN rows ELSE {}

\* The three statements of create_tables_if_not_exist and the commit.
create_tables_if_not_exist ==
    /\ hotelRows' = CreateTableIfNotExists("Hotel", hotelRows)
    /\ customerRows' = CreateTableIfNotExists("Customer", customerRows)
    /\ reservationRows' = CreateTableIfNotExists("Reservation", reservationRows)
    /\ sqlite_sequence' =
           [t \in TableNames |->
               IF t \in DOMAIN sqlite_sequence THEN sqlite_sequence[t] ELSE 0]

\* DatabaseHandler(db_name) on the storage in use, the handler before it
\* closed: connect, set the pragmas, create the tables that are missing.
DatabaseHandler ==
    /\ last = Idle
    /\ create_tables_if_not_exist
    /\ last' = Returned("DatabaseHandler", [db_name |-> Some("data/database.db")], None)

\* The caller takes the outcome of the call; the next call starts from Idle.
Return ==
    /\ last # Idle
    /\ last' = Idle
    /\ UNCHANGED <<tables, sqlite_sequence>>

\* DatabaseHandler(":memory:"): the three tables are created empty.  SQLite
\* has no pragma SQLITE_ALLOW_EMPTY_STRING and ignores a pragma it does not
\* know, so NOT NULL is the only check on the text columns: the empty string
\* is a value like any other.
Init ==
    /\ hotelRows = {}
    /\ customerRows = {}
    /\ reservationRows = {}
    /\ sqlite_sequence = [t \in TableNames |-> 0]
    /\ last = Idle

\* A caller can leave out the parameters of create_hotel, create_customer
\* and create_reservation (they default to None); the other methods are
\* called with values.
Next ==
    \/ \E name \in Opt(HotelNames), location \in Opt(Locations) :
          create_hotel(name, location)
    \/ \E name \in Opt(CustomerNames), email \in Opt(Emails) :
          create_customer(name, email)
    \/ \E hotel_id \in IdArgs("Hotel") \cup {None},
          customer_id \in IdArgs("Customer") \cup {None},
          date \in Opt(Dates), nights \in Opt(Nights) :
          create_reservation(hotel_id, customer_id, date, nights)
    \/ \E hotel_id \in IdArgs("Hotel"), name \in Vals(HotelNames),
          location \in Vals(Locations) :
          update_hotel(hotel_id, name, location)
    \/ \E customer_id \in IdArgs("Customer"), name \in Vals(CustomerNames),
          email \in Vals(Emails) :
          update_customer(customer_id, name, email)
    \/ \E reservation_id \in IdArgs("Reservation"), hotel_id \in IdArgs("Hotel"),
          customer_id \in IdArgs("Customer"), date \in Vals(Dates),
          nights \in Vals(Nights) :
          update_reservation(reservation_id, hotel_id, customer_id, date, nights)
    \/ \E hotel_id \in IdArgs("Hotel") : delete_hotel(hotel_id)
    \/ \E customer_id \in IdArgs("Customer") : delete_customer(customer_id)
    \/ \E reservation_id \in IdArgs("Reservation") : delete_reservation(reservation_id)
    \/ \E hotel_id \in IdArgs("Hotel") : LookupHotelById(hotel_id)
    \/ \E customer_id \in IdArgs("Customer") : LookupCustomerById(customer_id)
    \/ \E reservation_id \in IdArgs("Reservation") : LookupReservationById(reservation_id)
    \/ \E hotel_name \in Vals(HotelNames) : LookupHotelByName(hotel_name)
    \/ \E customer_email \in Vals(Emails) : LookupCustomerByEmail(customer_email)
    \/ \E hotel_name \in Vals(HotelNames), customer_email \in Vals(Emails),
          date \in Vals(Dates) :
          get_reservation_by_details(hotel_name, customer_email, date)
    \/ DatabaseHandler
    \/ Return

Spec == Init /\ [][Next]_vars

\* ================================================================== claims
DeleteOps == {"delete_hotel", "delete_customer", "delete_reservation"}
UpdateOps == {"update_hotel", "update_customer", "update_reservation"}
LookupOps == {"get_hotel_by_id", "get_customer_by_id", "get_reservation_by_id",
              "get_hotel_by_name", "get_customer_by_email",
              "get_reservation_by_details"}

\* C1: create_hotel with a name and a location that no Hotel row uses returns
\* a Hotel whose id is the id of the new row and of no other Hotel row;
\* create_hotel with the (name, location) pair of an existing row returns
\* None and leaves the Hotel table unchanged.
C1_CreateHotelStep ==
    last'.op = "create_hotel" =>
        LET name == last'.args.name
            location == last'.args.location
            ret == last'.ret
        IN  /\ ( /\ ~IsNone(name) /\ ~IsNone(location)
                 /\ \A r \in hotelRows :
                        r.NAME # Val(name) /\ r.LOCATION # Val(location) )
               => /\ ~IsNone(ret)
                  /\ Val(ret).name = Val(name) /\ Val(ret).location = Val(location)
                  /\ \A r \in hotelRows : r.ID # Val(ret).hotel_id
                  /\ Cardinality({r \in hotelRows' : r.ID = Val(ret).hotel_id}) = 1
            /\ ( /\ ~IsNone(name) /\ ~IsNone(location)
                 /\ \E r \in hotelRows :
                        r.NAME = Val(name) /\ r.LOCATION = Val(location) )
               => /\ IsNone(ret)
                  /\ hotelRows' = hotelRows

C1_CreateHotelFreshIdAndDuplicate == [][C1_CreateHotelStep]_vars

\* the duplicate create_hotel has returned None, beside a second Hotel row
C1_Witness ==
    /\ last.op = "create_hotel"
    /\ IsNone(last.ret)
    /\ ~IsNone(last.args.name) /\ ~IsNone(last.args.location)
    /\ \E r \in hotelRows :
           r.NAME = Val(last.args.name) /\ r.LOCATION = Val(last.args.location)
    /\ Cardinality(hotelRows) = 2
    /\ sqlite_sequence["Hotel"] = 3

\* C2: create_customer with the email of an existing Customer row returns
\* None and leaves the Customer table unchanged, whatever the name; with an
\* unused email it succeeds even when the name is the name of an existing row.
C2_CreateCustomerStep ==
    last'.op = "create_customer" =>
        LET name == last'.args.name
            email == last'.args.email
            ret == last'.ret
        IN  /\ ( /\ ~IsNone(email)
                 /\ \E r \in customerRows : r.EMAIL = Val(email) )
               => /\ IsNone(ret)
                  /\ last'.exc = "none"
                  /\ customerRows' = customerRows
            /\ ( /\ ~IsNone(name) /\ ~IsNone(email)
                 /\ \A r \in customerRows : r.EMAIL # Val(email) )
               => /\ ~IsNone(ret)
                  /\ customerRows' = customerRows \cup
                        {[ID |-> Val(ret).customer_id, NAME |-> Val(name),
                          EMAIL |-> Val(email)]}

C2_CreateCustomerEmailOnly == [][C2_CreateCustomerStep]_vars

\* create_customer has failed on a used email with a name the row does not have
C2_Witness ==
    /\ last.op = "create_customer"
    /\ IsNone(last.ret)
    /\ ~IsNone(last.args.name) /\ ~IsNone(last.args.email)
    /\ \E r \in customerRows :
           r.EMAIL = Val(last.args.email) /\ r.NAME # Val(last.args.name)
    /\ \E r \in customerRows : r.EMAIL # Val(last.args.email)

\* C3: create_reservation with a hotel_id that no Hotel row has or a
\* customer_id that no Customer row has returns None without raising and adds
\* no row to the Reservation table.
C3_CreateReservationStep ==
    last'.op = "create_reservation" =>
        LET hotel_id == last'.args.hotel_id
            customer_id == last'.args.customer_id
        IN  ( \/ IsNone(hotel_id)
              \/ IsNone(customer_id)
              \/ \A r \in hotelRows : r.ID # Val(hotel_id)
              \/ \A r \in customerRows : r.ID # Val(customer_id) )
            => /\ last'.exc = "none"
               /\ IsNone(last'.ret)
               /\ reservationRows' = reservationRows

C3_CreateReservationMissingParent == [][C3_CreateReservationStep]_vars

\* create_reservation has returned None for an existing customer and a
\* hotel_id that no Hotel row has
C3_Witness ==
    /\ last.op = "create_reservation"
    /\ IsNone(last.ret)
    /\ ~IsNone(last.args.hotel_id) /\ ~IsNone(last.args.customer_id)
    /\ ~IsNone(last.args.date) /\ ~IsNone(last.args.nights)
    /\ \A r \in hotelRows : r.ID # Val(last.args.hotel_id)
    /\ \E r \in customerRows : r.ID = Val(last.args.customer_id)
    /\ hotelRows # {}

\* No argument of the call is None.
NoNoneArg(call) == \A k \in DOMAIN call.args : ~IsNone(call.args[k])

\* The id argument of a delete, an update or a by-id lookup.
IdArg(call) ==
    CASE call.op \in {"delete_hotel", "update_hotel", "get_hotel_by_id"} ->
             call.args.hotel_id
      [] call.op \in {"delete_customer", "update_customer", "get_customer_by_id"} ->
             call.args.customer_id
      [] OTHER -> call.args.reservation_id

\* The IDs of the rows of the table a delete, an update or a by-id lookup is about.
IdsOfTable(call) ==
    CASE call.op \in {"delete_hotel", "update_hotel", "get_hotel_by_id"} ->
             {r.ID : r \in hotelRows}
      [] call.op \in {"delete_customer", "update_customer", "get_customer_by_id"} ->
             {r.ID : r \in customerRows}
      [] OTHER -> {r.ID : r \in reservationRows}

\* C4: delete_hotel, delete_customer and delete_reservation with an id that
\* no row of the entity has raise ValueError and leave all three tables as
\* they were.
C4_DeleteMissingStep ==
    ( /\ last'.op \in DeleteOps
      /\ \/ IsNone(IdArg(last'))
         \/ Val(IdArg(last')) \notin IdsOfTable(last') )
    => /\ last'.exc = "ValueError"
       /\ tables' = tables

C4_DeleteMissingRaisesNotFound == [][C4_DeleteMissingStep]_vars

\* a delete of an id once assigned and deleted since has raised ValueError
\* with rows in the table
C4_Witness ==
    /\ last.op \in DeleteOps
    /\ last.exc = "ValueError"
    /\ ~IsNone(IdArg(last))
    /\ IdsOfTable(last) # {}
    /\ \E id \in IdsOfTable(last) : Val(IdArg(last)) < id

\* C5: delete_hotel or delete_customer of a row that a Reservation row
\* references ends in an error that is not ValueError, and the row and the
\* Reservation rows that reference it are still there.
C5_DeleteReferencedStep ==
    /\ ( /\ last'.op = "delete_hotel"
         /\ ~IsNone(last'.args.hotel_id)
         /\ \E r \in reservationRows : r.HOTEL_ID = Val(last'.args.hotel_id) )
       => /\ last'.exc \notin {"none", "ValueError"}
          /\ \E h \in hotelRows' : h \in hotelRows /\ h.ID = Val(last'.args.hotel_id)
          /\ \A r \in reservationRows :
                 r.HOTEL_ID = Val(last'.args.hotel_id) => r \in reservationRows'
    /\ ( /\ last'.op = "delete_customer"
         /\ ~IsNone(last'.args.customer_id)
         /\ \E r \in reservationRows : r.CUSTOMER_ID = Val(last'.args.customer_id) )
       => /\ last'.exc \notin {"none", "ValueError"}
          /\ \E c \in customerRows' :
                 c \in customerRows /\ c.ID = Val(last'.args.customer_id)
          /\ \A r \in reservationRows :
                 r.CUSTOMER_ID = Val(last'.args.customer_id) => r \in reservationRows'

C5_DeleteReferencedIsBlocked == [][C5_DeleteReferencedStep]_vars

\* delete_hotel of a referenced Hotel row has ended in the storage error
C5_Witness ==
    /\ last.op = "delete_hotel"
    /\ last.exc = "IntegrityError"
    /\ \E r \in reservationRows : r.HOTEL_ID = Val(last.args.hotel_id)
    /\ \E h \in hotelRows : h.ID = Val(last.args.hotel_id)

\* Every id a call can name.
AllIds == 1 .. (MaxCreates + 1)

\* C6 as claimed: after update_hotel / update_customer / update_reservation
\* with the id of an existing row and new field values, the by-id lookup of
\* that id returns a record with that id and exactly the new values.
C6_UpdateThenLookupAnyValues ==
    /\ ( /\ last.op = "update_hotel"
         /\ get_hotel_by_id(last.args.hotel_id) # None
         /\ ~IsNone(last.args.name) /\ ~IsNone(last.args.location) )
       => get_hotel_by_id(last.args.hotel_id) =
              Some(Hotel(Val(last.args.hotel_id), Val(last.args.name),
                         Val(last.args.location)))
    /\ ( /\ last.op = "update_customer"
         /\ get_customer_by_id(last.args.customer_id) # None
         /\ ~IsNone(last.args.name) /\ ~IsNone(last.args.email) )
       => get_customer_by_id(last.args.customer_id) =
              Some(Customer(Val(last.args.customer_id), Val(last.args.name),
                            Val(last.args.email)))
    /\ ( /\ last.op = "update_reservation"
         /\ get_reservation_by_id(last.args.reservation_id) # None
         /\ ~IsNone(last.args.hotel_id) /\ ~IsNone(last.args.customer_id)
         /\ ~IsNone(last.args.date) /\ ~IsNone(last.args.nights) )
       => get_reservation_by_id(last.args.reservation_id) =
              Some(Reservation(Val(last.args.reservation_id), Val(last.args.hotel_id),
                               Val(last.args.customer_id), Val(last.args.date),
                               Val(last.args.nights)))

\* C6 (amended): after update_hotel / update_customer / update_reservation
\* with the id of an existing row and new field values that keep the table's
\* constraints (a hotel name and location that no other Hotel row has, a
\* customer email that no other Customer row has, a reservation hotel_id and
\* customer_id of existing rows), the call has returned and the by-id lookup
\* of that id returns a record with that id and exactly the new values.
C6_UpdateThenLookup ==
    /\ ( /\ last.op = "update_hotel"
         /\ get_hotel_by_id(last.args.hotel_id) # None
         /\ ~IsNone(last.args.name) /\ ~IsNone(last.args.location)
         /\ \A r \in hotelRows :
               r.ID # Val(last.args.hotel_id) =>
                   /\ r.NAME # Val(last.args.name)
                   /\ r.LOCATION # Val(last.args.location) )
       => /\ last.exc = "none"
          /\ get_hotel_by_id(last.args.hotel_id) =
                 Some(Hotel(Val(last.args.hotel_id), Val(last.args.name),
                            Val(last.args.location)))
    /\ ( /\ last.op = "update_customer"
         /\ get_customer_by_id(last.args.customer_id) # None
         /\ ~IsNone(last.args.name) /\ ~IsNone(last.args.email)
         /\ \A r \in customerRows :
               r.ID # Val(last.args.customer_id) => r.EMAIL # Val(last.args.email) )
       => /\ last.exc = "none"
          /\ get_customer_by_id(last.args.customer_id) =
                 Some(Customer(Val(last.args.customer_id), Val(last.args.name),
                               Val(last.args.email)))
    /\ ( /\ last.op = "update_reservation"
         /\ get_reservation_by_id(last.args.reservation_id) # None
         /\ ~IsNone(last.args.hotel_id) /\ ~IsNone(last.args.customer_id)
         /\ ~IsNone(last.args.date) /\ ~IsNone(last.args.nights)
         /\ \E r \in hotelRows : r.ID = Val(last.args.hotel_id)
         /\ \E r \in customerRows : r.ID = Val(last.args.customer_id) )
       => /\ last.exc = "none"
          /\ get_reservation_by_id(last.args.reservation_id) =
                 Some(Reservation(Val(last.args.reservation_id),
                                  Val(last.args.hotel_id), Val(last.args.customer_id),
                                  Val(last.args.date), Val(last.args.nights)))

\* update_customer has given the second of two Customer rows the name of the
\* first and an email of its own
C6_Witness ==
    /\ last.op = "update_customer"
    /\ last.exc = "none"
    /\ ~IsNone(last.args.customer_id)
    /\ ~IsNone(last.args.name) /\ ~IsNone(last.args.email)
    /\ \E c \in customerRows, d \in customerRows :
          /\ c.ID = Val(last.args.customer_id)
          /\ d.ID < c.ID
          /\ c.NAME = Val(last.args.name) /\ c.EMAIL = Val(last.args.email)
          /\ d.NAME = c.NAME

\* C7: after delete_hotel / delete_customer / delete_reservation of an
\* existing row that no Reservation row references, the by-id lookup of that
\* id returns None, and no later lookup changes what a by-id lookup returns.
C7_DeleteThenLookupStep ==
    /\ \A i \in AllIds :
          /\ ( /\ last'.op = "delete_hotel"
               /\ last'.args.hotel_id = Some(i)
               /\ \E r \in hotelRows : r.ID = i
               /\ \A r \in reservationRows : r.HOTEL_ID # i )
             => last'.exc = "none" /\ get_hotel_by_id(Some(i))' = None
          /\ ( /\ last'.op = "delete_customer"
               /\ last'.args.customer_id = Some(i)
               /\ \E r \in customerRows : r.ID = i
               /\ \A r \in reservationRows : r.CUSTOMER_ID # i )
             => last'.exc = "none" /\ get_customer_by_id(Some(i))' = None
          /\ ( /\ last'.op = "delete_reservation"
               /\ last'.args.reservation_id = Some(i)
               /\ \E r \in reservationRows : r.ID = i )
             => last'.exc = "none" /\ get_reservation_by_id(Some(i))' = None
    /\ (last'.op \in LookupOps \/ last' = Idle)
       => \A i \in AllIds :
             /\ get_hotel_by_id(Some(i))' = get_hotel_by_id(Some(i))
             /\ get_customer_by_id(Some(i))' = get_customer_by_id(Some(i))
             /\ get_reservation_by_id(Some(i))' = get_reservation_by_id(Some(i))

C7_DeleteThenLookupReturnsNone == [][C7_DeleteThenLookupStep]_vars

\* a by-id lookup of a Reservation id that was assigned and deleted has
\* returned None
C7_Witness ==
    /\ last.op = "get_reservation_by_id"
    /\ last.exc = "none"
    /\ IsNone(last.ret)
    /\ ~IsNone(last.args.reservation_id)
    /\ Val(last.args.reservation_id) <= sqlite_sequence["Reservation"]

\* C8: update_hotel, update_customer and update_reservation never raise,
\* whatever the values of the arguments (a name, location or email that
\* another row has, a hotel_id or customer_id that no row has), and with an
\* id that no row has they leave all three tables unchanged.
C8_UpdateStep ==
    (last'.op \in UpdateOps /\ NoNoneArg(last')) =>
        /\ last'.exc = "none"
        /\ Val(IdArg(last')) \notin IdsOfTable(last') => tables' = tables

C8_UpdateNeverRaises == [][C8_UpdateStep]_vars

\* C9: each of the six lookups returns None and does not raise when no row
\* matches; get_reservation_by_details does so when no Hotel has the name or
\* no Customer has the email.
C9_LookupMissReturnsNone ==
    /\ ( /\ last.op \in {"get_hotel_by_id", "get_customer_by_id",
                         "get_reservation_by_id"}
         /\ \/ IsNone(IdArg(last))
            \/ Val(IdArg(last)) \notin IdsOfTable(last) )
       => last.exc = "none" /\ IsNone(last.ret)
    /\ ( /\ last.op = "get_hotel_by_name"
         /\ \/ IsNone(last.args.hotel_name)
            \/ \A r \in hotelRows : r.NAME # Val(last.args.hotel_name) )
       => last.exc = "none" /\ IsNone(last.ret)
    /\ ( /\ last.op = "get_customer_by_email"
         /\ \/ IsNone(last.args.customer_email)
            \/ \A r \in customerRows : r.EMAIL # Val(last.args.customer_email) )
       => last.exc = "none" /\ IsNone(last.ret)
    /\ ( /\ last.op = "get_reservation_by_details"
         /\ NoNoneArg(last)
         /\ \/ \A r \in hotelRows : r.NAME # Val(last.args.hotel_name)
            \/ \A r \in customerRows : r.EMAIL # Val(last.args.customer_email) )
       => last.exc = "none" /\ IsNone(last.ret)

\* C10: get_reservation_by_details(hotel_name, customer_email, date), when a
\* Hotel with the name, a Customer with the email and a Reservation row with
\* their ids and the date exist, returns a Reservation record of such a row.
C10_DetailsFindsReservation ==
    ( /\ last.op = "get_reservation_by_details"
      /\ NoNoneArg(last)
      /\ \E h \in hotelRows, c \in customerRows, r \in reservationRows :
            /\ h.NAME = Val(last.args.hotel_name)
            /\ c.EMAIL = Val(last.args.customer_email)
            /\ r.HOTEL_ID = h.ID /\ r.CUSTOMER_ID = c.ID
            /\ r.DATE = Val(last.args.date) )
    => /\ last.exc = "none"
       /\ ~IsNone(last.ret)
       /\ \E h \in hotelRows, c \in customerRows, r \in reservationRows :
             /\ h.NAME = Val(last.args.hotel_name)
             /\ c.EMAIL = Val(last.args.customer_email)
             /\ r.HOTEL_ID = h.ID /\ r.CUSTOMER_ID = c.ID
             /\ r.DATE = Val(last.args.date)
             /\ Val(last.ret) = Reservation(r.ID, r.HOTEL_ID, r.CUSTOMER_ID,
                                            r.DATE, r.NIGHTS)

\* C11: in every reachable state no two Hotel rows share a name, no two
\* Hotel rows share a location and no two Customer rows share an email.
C11_UniqueNaturalKeys ==
    /\ \A r \in hotelRows, q \in hotelRows :
          (r.NAME = q.NAME \/ r.LOCATION = q.LOCATION) => r = q
    /\ \A r \in customerRows, q \in customerRows :
          r.EMAIL = q.EMAIL => r = q

\* update_hotel has failed to give one of two Hotel rows the location of the
\* other
C11_Witness ==
    /\ last.op = "update_hotel"
    /\ last.exc = "IntegrityError"
    /\ Cardinality(hotelRows) = 2
    /\ \E r \in hotelRows, q \in hotelRows :
          /\ r.ID = Val(last.args.hotel_id)
          /\ q.ID # r.ID
          /\ q.LOCATION = Val(last.args.location)
          /\ q.NAME # Val(last.args.name)

\* C12: in every reachable state every Hotel row has a non-empty name and a
\* non-empty location and every Customer row has a non-empty name and a
\* non-empty email, whatever a create or an update supplied.
C12_NoEmptyTextField ==
    /\ \A r \in hotelRows : r.NAME # "" /\ r.LOCATION # ""
    /\ \A r \in customerRows : r.NAME # "" /\ r.EMAIL # ""

\* C13: after a create_hotel, create_customer or create_reservation that
\* returned a record, the by-id lookup of the record's id returns a record
\* with that id and the field values that were the arguments of the create;
\* get_hotel_by_name and get_customer_by_email return that same record.
C13_CreateThenLookup ==
    /\ (last.op = "create_hotel" /\ ~IsNone(last.ret)) =>
          LET found == get_hotel_by_id(Some(Val(last.ret).hotel_id)) IN
          /\ ~IsNone(found)
          /\ Val(found).hotel_id = Val(last.ret).hotel_id
          /\ Some(Val(found).name) = last.args.name
          /\ Some(Val(found).location) = last.args.location
          /\ get_hotel_by_name(last.args.name) = found
    /\ (last.op = "create_customer" /\ ~IsNone(last.ret)) =>
          LET found == get_customer_by_id(Some(Val(last.ret).customer_id)) IN
          /\ ~IsNone(found)
          /\ Val(found).customer_id = Val(last.ret).customer_id
          /\ Some(Val(found).name) = last.args.name
          /\ Some(Val(found).email) = last.args.email
          /\ get_customer_by_email(last.args.email) = found
    /\ (last.op = "create_reservation" /\ ~IsNone(last.ret)) =>
          LET found == get_reservation_by_id(Some(Val(last.ret).reservation_id)) IN
          /\ ~IsNone(found)
          /\ Val(found).reservation_id = Val(last.ret).reservation_id
          /\ Some(Val(found).hotel_id) = last.args.hotel_id
          /\ Some(Val(found).customer_id) = last.args.customer_id
          /\ Some(Val(found).check_in_date) = last.args.date
          /\ Some(Val(found).nights) = last.args.nights

\* create_customer has returned the record of a second Customer row that has
\* the name of the first
C13_Witness ==
    /\ last.op = "create_customer"
    /\ ~IsNone(last.ret)
    /\ \E r \in customerRows :
          /\ r.ID # Val(last.ret).customer_id
          /\ r.NAME = Val(last.ret).name
          /\ r.ID < Val(last.ret).customer_id

\* C14: constructing a DatabaseHandler on a storage that holds the three
\* tables, with any rows, succeeds and leaves every row of Hotel, Customer
\* and Reservation as it was; so any number of constructions leave the
\* tables as one construction does.
C14_ConstructStep ==
    last'.op = "DatabaseHandler" =>
        /\ last'.exc = "none"
        /\ hotelRows' = hotelRows
        /\ customerRows' = customerRows
        /\ reservationRows' = reservationRows

C14_ConstructKeepsRows == [][C14_ConstructStep]_vars

\* a DatabaseHandler has been constructed on a storage with a row in each
\* of the three tables
C14_Witness ==
    /\ last.op = "DatabaseHandler"
    /\ last.exc = "none"
    /\ hotelRows # {} /\ customerRows # {} /\ reservationRows # {}

\* C15: in every state reached by creates, updates and deletes (an
\* update_reservation with any hotel_id / customer_id and deletes of hotels
\* and customers among them), the HOTEL_ID of every Reservation row is the ID
\* of a Hotel row and its CUSTOMER_ID is the ID of a Customer row.
C15_ReservationsReferenceExistingRows ==
    \A r \in reservationRows :
        /\ \E h \in hotelRows : h.ID = r.HOTEL_ID
        /\ \E c \in customerRows : c.ID = r.CUSTOMER_ID

\* update_reservation was called on a stored reservation with a hotel_id no
\* Hotel row has, and was aborted
C15_Witness ==
    /\ last.op = "update_reservation"
    /\ last.exc = "IntegrityError"
    /\ ReservationRowsById(last.args.reservation_id) # {}
    /\ HotelRowsById(last.args.hotel_id) = {}
    /\ CustomerRowsById(last.args.customer_id) # {}

CreateOps == {"create_hotel", "create_customer", "create_reservation"}

\* The table a create inserts into, and the id of the object it returned.
TableOfCreate(call) ==
    CASE call.op = "create_hotel" -> "Hotel"
      [] call.op = "create_customer" -> "Customer"
      [] OTHER -> "Reservation"

ReturnedId(call) ==
    CASE call.op = "create_hotel" -> Val(call.ret).hotel_id
      [] call.op = "create_customer" -> Val(call.ret).customer_id
      [] OTHER -> Val(call.ret).reservation_id

\* C16: within one storage the ids returned by the successful creates of one
\* entity type are strictly increasing, also after deletes and after failed
\* creates: sqlite_sequence holds, per table, the last id a create returned
\* (0 before the first); a successful create returns an id above it and
\* above the ID of every row of the table, and records it; no other step,
\* a failed create, a delete or a construction among them, changes it.
C16_CreateStep ==
    IF last'.op \in CreateOps /\ ~IsNone(last'.ret)
    THEN LET t == TableOfCreate(last')
             id == ReturnedId(last')
         IN  /\ id > sqlite_sequence[t]
             /\ \A r \in (CASE t = "Hotel" -> hotelRows
                            [] t = "Customer" -> customerRows
                            [] OTHER -> reservationRows) : r.ID < id
             /\ sqlite_sequence' = [sqlite_sequence EXCEPT ![t] = id]
    ELSE sqlite_sequence' = sqlite_sequence

C16_IdsStrictlyIncrease == [][C16_CreateStep]_vars

\* create_customer has returned id 3 into a table that holds no other row:
\* the rows of ids 1 and 2 have been deleted
C16_Witness ==
    /\ last.op = "create_customer"
    /\ ~IsNone(last.ret)
    /\ Val(last.ret).customer_id = 3
    /\ Cardinality(customerRows) = 1

\* C17: a successful delete_hotel, delete_customer or delete_reservation
\* removes the row with the given id and nothing else: the other rows of the
\* table and all rows of the other two tables stay as they were; and every
\* lookup, whatever it returns or raises, leaves the three tables unchanged.
C17_FrameStep ==
    /\ (last'.op = "delete_hotel" /\ last'.exc = "none") =>
           /\ \E r \in hotelRows :
                 r.ID = Val(last'.args.hotel_id) /\ hotelRows' = hotelRows \ {r}
           /\ customerRows' = customerRows
           /\ reservationRows' = reservationRows
    /\ (last'.op = "delete_customer" /\ last'.exc = "none") =>
           /\ \E r \in customerRows :
                 r.ID = Val(last'.args.customer_id) /\ customerRows' = customerRows \ {r}
           /\ hotelRows' = hotelRows
           /\ reservationRows' = reservationRows
    /\ (last'.op = "delete_reservation" /\ last'.exc = "none") =>
           /\ \E r \in reservationRows :
                 /\ r.ID = Val(last'.args.reservation_id)
                 /\ reservationRows' = reservationRows \ {r}
           /\ hotelRows' = hotelRows
           /\ customerRows' = customerRows
    /\ last'.op \in LookupOps => tables' = tables

C17_DeleteRemovesOneRow == [][C17_FrameStep]_vars

\* delete_customer has removed one Customer row and another Customer row and
\* a Hotel row are still stored
C17_Witness ==
    /\ last.op = "delete_customer"
    /\ last.exc = "none"
    /\ customerRows # {}
    /\ hotelRows # {}
    /\ CustomerRowsById(last.args.customer_id) = {}
====
